---- MODULE Spec2Model ----
(***************************************************************************)
(* Model of scripts/convert.py: the driver that clones NBDCtoolsData when  *)
(* the data file is not found, extracts one release to CSV, stamps the     *)
(* release into the YAML config, runs the conversion and the validation,   *)
(* and cleans up in a finally block.                                       *)
(***************************************************************************)
EXTENDS Integers, Sequences, FiniteSets, TLC

VARIABLES
    args,        \* parsed command line: release, config is fixed, validate, keep_data
    dirExists,   \* ./NBDCtoolsData exists
    rdaInDir,    \* ./NBDCtoolsData/data/lst_dds.rda exists
    localRda,    \* <repo>/../NBDCtoolsData/data/lst_dds.rda exists (local dev checkout)
    dataDir,     \* ./data exists
    csvFiles,    \* releases r for which data/abcd_<r>.csv exists
    cfgFile,     \* the YAML config file as it is on disk
    pc,          \* position in main()
    rda_path,    \* local variable rda_path of main()
    cloned,      \* local variable cloned of main()
    pending,     \* exit status carried out of the try block (-1: none)
    exit_code,   \* process exit status (-1: still running)
    trace,       \* steps invoked so far, each with its command and return code
    cleanupRan,  \* the finally block was entered
    removed,     \* what the finally block removed: subset of {"dir", "csv"}
    cleanupFault,\* shutil.rmtree or Path.unlink raised inside the finally block
    pre,         \* the filesystem as it was when the run started
    prev         \* outcome of the previous run (step that failed, exit status)

vars == <<args, dirExists, rdaInDir, localRda, dataDir, csvFiles, cfgFile, pc,
          rda_path, cloned, pending, exit_code, trace, cleanupRan, removed,
          cleanupFault, pre, prev>>

fsVars == <<dirExists, rdaInDir, localRda, dataDir, csvFiles, cfgFile>>

----------------------------------------------------------------------------
\* Bounds of the model

\* external tools return a code in 0..MaxRC
MaxRC == 2
\* the config file holds at most MaxCfgLen top-level entries when the run starts
MaxCfgLen == 2

----------------------------------------------------------------------------
\* Constants of the program

NBDC_REPO_URL == "https://github.com/nbdc-datahub/NBDCtoolsData.git"

\* release identifiers given on the command line; "6.0" reads as a YAML float,
\* "x" as a YAML string
Releases == {"6.0", "x"}

RCs == 0..MaxRC

\* git clone --depth 1 <url>
CloneCmd == <<"git", "clone", "--depth", "1", NBDC_REPO_URL>>

CsvPath(release) ==
    IF release = "6.0" THEN "data/abcd_6.0.csv" ELSE "data/abcd_x.csv"

RdaPathStr(p) ==
    IF p = "cloned" THEN "NBDCtoolsData/data/lst_dds.rda"
    ELSE "../NBDCtoolsData/data/lst_dds.rda"

ExtractCmd(p, release) ==
    <<"Rscript", "scripts/extract_release.R", RdaPathStr(p), release, CsvPath(release)>>

ConvertCmd(release) ==
    <<"reproschema", "nbdc2reproschema", CsvPath(release), "abcd_nbdc2rs.yaml">>

ValidateCmd == <<"reproschema", "validate", "ABCD">>

----------------------------------------------------------------------------
\* YAML documents. A mapping file is a sequence of <<key, token>> entries; a
\* token is a scalar as written: plain or quoted.

Keys == {"a", "source_version"}
\* yaml.dump sorts the keys of a mapping
KeyOrder == <<"a", "source_version">>
Tokens == {[style |-> "plain", text |-> "6.0"],
           [style |-> "quoted", text |-> "6.0"],
           [style |-> "plain", text |-> "x"]}

\* the implicit type a plain scalar resolves to
Resolve(text) == IF text = "6.0" THEN "float" ELSE "str"

StrVal(text) == [t |-> "str", v |-> text]

\* yaml.safe_load of one scalar
LoadScalar(tok) ==
    IF tok.style = "quoted" THEN StrVal(tok.text)
    ELSE [t |-> Resolve(tok.text), v |-> tok.text]

\* mutant: strings are always written plain
DumpScalar_plain(val) == [style |-> "plain", text |-> val.v]

\* yaml.dump of one scalar: a string that would read back as another type is quoted
DumpScalar(val) ==
    IF val.t = "str" /\ Resolve(val.v) # "str"
    THEN [style |-> "quoted", text |-> val.v]
    ELSE [style |-> "plain", text |-> val.v]

LastIndexOf(entries, k) ==
    CHOOSE i \in 1..Len(entries) :
        /\ entries[i][1] = k
        /\ \A j \in (i+1)..Len(entries) : entries[j][1] # k

\* yaml.safe_load of a mapping file: a dict; a repeated key keeps its last value
Load(entries) ==
    [k \in {entries[i][1] : i \in 1..Len(entries)} |->
        LoadScalar(entries[LastIndexOf(entries, k)][2])]

RECURSIVE DumpFrom(_, _)
DumpFrom(m, i) ==
    IF i > Len(KeyOrder) THEN <<>>
    ELSE IF KeyOrder[i] \in DOMAIN m
         THEN <<<<KeyOrder[i], DumpScalar(m[KeyOrder[i]])>>>> \o DumpFrom(m, i + 1)
         ELSE DumpFrom(m, i + 1)

\* yaml.dump of a dict
Dump(m) == DumpFrom(m, 1)

\* config['source_version'] = args.release
SetSourceVersion(m, release) ==
    [k \in (DOMAIN m) \cup {"source_version"} |->
        IF k = "source_version" THEN StrVal(release) ELSE m[k]]

EntrySeqs(n) == UNION {[1..k -> Keys \X Tokens] : k \in 0..n}

\* what the config path can hold when a run starts: no file, an empty document
\* (loads as None), a list, or a mapping
Docs ==
    {[kind |-> "missing", entries |-> <<>>],
     [kind |-> "null", entries |-> <<>>],
     [kind |-> "seq", entries |-> <<>>]}
    \cup {[kind |-> "map", entries |-> e] : e \in EntrySeqs(MaxCfgLen)}

----------------------------------------------------------------------------
\* The state when main() starts, after parse_args

Snapshot ==
    [dir |-> dirExists, rda |-> rdaInDir, local |-> localRda,
     csv |-> csvFiles, cfg |-> cfgFile]

ArgSets == [release : Releases, validate : BOOLEAN, keep_data : BOOLEAN]

NoRun == [step |-> "norun", code |-> -1, fault |-> FALSE]

StartOfRun ==
    /\ pc = "start"
    /\ rda_path = "unset"
    /\ cloned = FALSE
    /\ pending = -1
    /\ exit_code = -1
    /\ trace = <<>>
    /\ cleanupRan = FALSE
    /\ removed = {}
    /\ cleanupFault = FALSE

Init ==
    /\ args \in ArgSets
    /\ dirExists \in BOOLEAN
    /\ rdaInDir \in {r \in BOOLEAN : r => dirExists}
    /\ localRda \in BOOLEAN
    /\ dataDir \in BOOLEAN
    /\ csvFiles \in {c \in SUBSET Releases : c # {} => dataDir}
    /\ cfgFile \in Docs
    /\ StartOfRun
    /\ pre = Snapshot
    /\ prev = NoRun

----------------------------------------------------------------------------
\* Helpers of the steps

Entry(step, cmd, rc) == [step |-> step, cmd |-> cmd, rc |-> rc]

\* mutant: the try block opens after the extraction
InTry_afterExtract(p) == p \in {"patch", "convert", "validate"}

\* the positions of main() that lie inside the try block
InTry(p) == p \in {"extract", "patch", "convert", "validate"}

\* sys.exit(code), or an exception that ends the process with status code:
\* inside the try block the finally block runs first
Leave(code) ==
    IF InTry(pc)
    THEN /\ pc' = "finally"
         /\ pending' = code
         /\ UNCHANGED exit_code
    ELSE /\ pc' = "exited"
         /\ exit_code' = code
         /\ UNCHANGED pending

\* find_rda_path(): the cloned location first, then the local dev location
find_rda_path ==
    IF rdaInDir THEN "cloned"
    ELSE IF localRda THEN "local"
    ELSE "none"

\* mutant: the return code of the extraction is not looked at
ExtractFailed_never(rc) == FALSE

\* extract_release returns False
ExtractFailed(rc) == rc # 0

\* mutant: the return code of the conversion is not looked at
ConvertFailed_never(rc) == FALSE

\* the conversion failed
ConvertFailed(rc) == rc # 0

\* mutant: a failed conversion always exits 1
ConvertExit_one(rc) == 1

\* the status main() exits with when the conversion failed
ConvertExit(rc) == rc

\* mutant: the validation runs whatever the flag says
ShouldValidate_always == TRUE

\* if args.validate
ShouldValidate == args.validate

\* mutant: the flag is read the wrong way round
CleanupWanted_inverted == args.keep_data

\* if not args.keep_data
CleanupWanted == ~args.keep_data

\* mutant: the directory is removed whether or not this run went through the clone
RemoveDirWanted_always == TRUE

\* if cloned
RemoveDirWanted == cloned

----------------------------------------------------------------------------
\* The steps of main()

\* DATA_DIR.mkdir(exist_ok=True); rda_path = find_rda_path(); cloned = False
FindRda ==
    /\ pc = "start"
    /\ dataDir' = TRUE
    /\ rda_path' = find_rda_path
    /\ cloned' = FALSE
    /\ pc' = IF find_rda_path = "none" THEN "clone" ELSE "extract"
    /\ UNCHANGED <<args, dirExists, rdaInDir, localRda, csvFiles, cfgFile, pending,
                   exit_code, trace, cleanupRan, removed, cleanupFault, pre, prev>>

\* if rda_path is None: if not clone_nbdc_data(): sys.exit(1); cloned = True.
\* clone_nbdc_data() returns True without running git when the directory exists.
CloneStep ==
    /\ pc = "clone"
    /\ IF dirExists
       THEN /\ cloned' = TRUE
            /\ rda_path' = "cloned"
            /\ pc' = "extract"
            /\ UNCHANGED <<dirExists, rdaInDir, trace, exit_code, pending>>
       ELSE \E rc \in RCs :
            /\ trace' = Append(trace, Entry("clone", CloneCmd, rc))
            /\ IF rc # 0
               THEN /\ Leave(1)
                    /\ UNCHANGED <<dirExists, rdaInDir, cloned, rda_path>>
               ELSE /\ dirExists' = TRUE
                    /\ rdaInDir' \in BOOLEAN
                    /\ cloned' = TRUE
                    /\ rda_path' = "cloned"
                    /\ pc' = "extract"
                    /\ UNCHANGED <<exit_code, pending>>
    /\ UNCHANGED <<args, localRda, dataDir, csvFiles, cfgFile, cleanupRan, removed,
                   cleanupFault, pre, prev>>

\* if not extract_release(rda_path, args.release, csv_path): sys.exit(1).
\* The R script is an external process: it writes the CSV when it succeeds and
\* may or may not have written it when it fails.
ExtractStep ==
    /\ pc = "extract"
    /\ \E rc \in RCs :
        /\ trace' = Append(trace, Entry("extract", ExtractCmd(rda_path, args.release), rc))
        /\ IF rc = 0
           THEN csvFiles' = csvFiles \cup {args.release}
           ELSE csvFiles' \in {csvFiles, csvFiles \cup {args.release}}
        /\ IF ExtractFailed(rc)
           THEN Leave(1)
           ELSE /\ pc' = "patch"
                /\ UNCHANGED <<pending, exit_code>>
    /\ UNCHANGED <<args, dirExists, rdaInDir, localRda, dataDir, cfgFile, rda_path,
                   cloned, cleanupRan, removed, cleanupFault, pre, prev>>

\* config = yaml.safe_load(f); config['source_version'] = args.release;
\* yaml.dump(config, f). Reading a missing file raises, and so does the item
\* assignment on a document that is no mapping, and so does opening a file
\* that cannot be written; the file is then as it was.
PatchStep ==
    /\ pc = "patch"
    /\ \E writable \in BOOLEAN :
        IF cfgFile.kind = "map" /\ writable
        THEN /\ cfgFile' = [kind |-> "map",
                            entries |-> Dump(SetSourceVersion(Load(cfgFile.entries),
                                                              args.release))]
             /\ trace' = Append(trace, Entry("patch", <<>>, 0))
             /\ pc' = "convert"
             /\ UNCHANGED <<pending, exit_code>>
        ELSE /\ trace' = Append(trace, Entry("patch", <<>>, 1))
             /\ Leave(1)
             /\ UNCHANGED cfgFile
    /\ UNCHANGED <<args, dirExists, rdaInDir, localRda, dataDir, csvFiles, rda_path,
                   cloned, cleanupRan, removed, cleanupFault, pre, prev>>

\* result = subprocess.run(["reproschema", "nbdc2reproschema", csv, config]);
\* if result.returncode != 0: sys.exit(result.returncode)
ConvertStep ==
    /\ pc = "convert"
    /\ \E rc \in RCs :
        /\ trace' = Append(trace, Entry("convert", ConvertCmd(args.release), rc))
        /\ IF ConvertFailed(rc)
           THEN Leave(ConvertExit(rc))
           ELSE /\ pc' = "validate"
                /\ UNCHANGED <<pending, exit_code>>
    /\ UNCHANGED <<args, fsVars, rda_path, cloned, cleanupRan, removed, cleanupFault,
                   pre, prev>>

\* if args.validate: result = subprocess.run(["reproschema", "validate", "ABCD"]);
\* if result.returncode != 0: sys.exit(result.returncode); then print("Done!")
ValidateStep ==
    /\ pc = "validate"
    /\ IF ShouldValidate
       THEN \E rc \in RCs :
            /\ trace' = Append(trace, Entry("validate", ValidateCmd, rc))
            /\ IF rc # 0
               THEN Leave(rc)
               ELSE /\ pc' = "finally"
                    /\ pending' = 0
                    /\ UNCHANGED exit_code
       ELSE /\ pc' = "finally"
            /\ pending' = 0
            /\ UNCHANGED <<trace, exit_code>>
    /\ UNCHANGED <<args, fsVars, rda_path, cloned, cleanupRan, removed, cleanupFault,
                   pre, prev>>

\* finally: if not args.keep_data: if cloned: cleanup_nbdc_data();
\* if csv_path.exists(): csv_path.unlink(). Then the process ends. shutil.rmtree
\* and unlink may raise: the exception leaves the finally block at once and the
\* process ends with status 1.
FinallyStep ==
    /\ pc = "finally"
    /\ \E rmOk \in BOOLEAN, unlinkOk \in BOOLEAN :
        LET callRm     == CleanupWanted /\ RemoveDirWanted /\ dirExists
            reachCsv   == CleanupWanted /\ (callRm => rmOk)
            callUnlink == reachCsv /\ args.release \in csvFiles
            dirGone    == callRm /\ rmOk
            csvGone    == callUnlink /\ unlinkOk
            fault      == ~rmOk \/ ~unlinkOk
        IN  /\ ~callRm => rmOk
            /\ ~callUnlink => unlinkOk
            /\ dirExists' = (dirExists /\ ~dirGone)
            /\ IF dirGone THEN rdaInDir' = FALSE
               ELSE IF callRm THEN rdaInDir' \in {rdaInDir, FALSE}
               ELSE rdaInDir' = rdaInDir
            /\ csvFiles' = IF csvGone THEN csvFiles \ {args.release} ELSE csvFiles
            /\ removed' = (IF dirGone THEN {"dir"} ELSE {}) \cup
                          (IF csvGone THEN {"csv"} ELSE {})
            /\ cleanupFault' = fault
            /\ exit_code' = IF fault THEN 1 ELSE pending
    /\ cleanupRan' = TRUE
    /\ pc' = "exited"
    /\ UNCHANGED <<args, localRda, dataDir, cfgFile, rda_path, cloned, pending,
                   trace, pre, prev>>

Next ==
    \/ FindRda
    \/ CloneStep
    \/ ExtractStep
    \/ PatchStep
    \/ ConvertStep
    \/ ValidateStep
    \/ FinallyStep

Spec == Init /\ [][Next]_vars

----------------------------------------------------------------------------
\* Vocabulary of the properties, read off the trace of invoked steps

Done == pc = "exited"

Count(step) == Cardinality({i \in DOMAIN trace : trace[i].step = step})

Invoked(step) == \E i \in DOMAIN trace : trace[i].step = step

Succeeded(step) == \E i \in DOMAIN trace : trace[i].step = step /\ trace[i].rc = 0

Failed(step) == \E i \in DOMAIN trace : trace[i].step = step /\ trace[i].rc # 0

ReturnCode(step) == trace[CHOOSE i \in DOMAIN trace : trace[i].step = step].rc

\* the first step of the run that failed, "none" when none did
FailedStep ==
    IF \E i \in DOMAIN trace : trace[i].rc # 0
    THEN trace[CHOOSE i \in DOMAIN trace :
                   /\ trace[i].rc # 0
                   /\ \A j \in 1..(i-1) : trace[j].rc = 0].step
    ELSE "none"

ToolSteps == {"clone", "extract", "convert", "validate"}

Rank(step) ==
    CASE step = "clone" -> 1
      [] step = "extract" -> 2
      [] step = "patch" -> 3
      [] step = "convert" -> 4
      [] step = "validate" -> 5

\* the dataset the run read from is still there: the sibling checkout when the
\* data file was found there, NBDCtoolsData in the working directory otherwise
DatasetPresent == IF rda_path = "local" THEN localRda ELSE dirExists

\* every requested step succeeded
AllSucceeded ==
    /\ ~Failed("clone")
    /\ Succeeded("extract")
    /\ Succeeded("patch")
    /\ Succeeded("convert")
    /\ args.validate => Succeeded("validate")

\* m2 is m with source_version set to the string release and nothing else changed
IsPatched(m, m2, release) ==
    /\ DOMAIN m2 = (DOMAIN m) \cup {"source_version"}
    /\ m2["source_version"] = [t |-> "str", v |-> release]
    /\ \A k \in (DOMAIN m) \ {"source_version"} : m2[k] = m[k]

----------------------------------------------------------------------------
\* Runs one after another on the same filesystem

\* the process has ended and the driver is started again, with any arguments
Rerun ==
    /\ pc = "exited"
    /\ args' \in ArgSets
    /\ pc' = "start"
    /\ rda_path' = "unset"
    /\ cloned' = FALSE
    /\ pending' = -1
    /\ exit_code' = -1
    /\ trace' = <<>>
    /\ cleanupRan' = FALSE
    /\ removed' = {}
    /\ cleanupFault' = FALSE
    /\ pre' = Snapshot
    /\ prev' = [step |-> FailedStep, code |-> exit_code, fault |-> cleanupFault]
    /\ UNCHANGED fsVars

InitRuns == Init /\ Len(cfgFile.entries) = 0

NextRuns == Next \/ Rerun

SpecRuns == InitRuns /\ [][NextRuns]_vars

----------------------------------------------------------------------------
\* Properties

\* C1 (as stated): in a run in which the clone subprocess was never invoked, or
\* in which --keep-data was given, a NBDCtoolsData directory that existed before
\* the run still exists when the process exits.
C1_PreexistingDirSurvives ==
    (Done /\ pre.dir /\ (~Invoked("clone") \/ args.keep_data)) => dirExists

\* C2 (as stated): a run that ends in a clone, extraction, conversion or
\* validation failure, or in an exception of the config patch, has executed the
\* cleanup step when the process exits.
C2_CleanupOnEveryFailure ==
    (Done /\ FailedStep \in {"clone", "extract", "patch", "convert", "validate"})
        => cleanupRan

\* C2 (amended): a run that ends in an extraction, conversion or validation
\* failure, or in an exception of the config patch, has executed the cleanup
\* step when the process exits; a run that ends in a clone failure has exited
\* before the try block and has not.
C2_CleanupOnFailureInTry ==
    Done =>
        /\ FailedStep \in {"extract", "patch", "convert", "validate"} => cleanupRan
        /\ FailedStep = "clone" => ~cleanupRan

C2_Witness ==
    Done /\ FailedStep = "patch" /\ cleanupRan /\ "csv" \in removed

\* C3 (as stated): at the end of a run nothing has been removed when --keep-data
\* was given, and otherwise no run ends with one of the dataset directory and
\* the extracted CSV still present and the other removed.
C3_BothAbsentOrBothRetained ==
    Done =>
        IF args.keep_data
        THEN removed = {}
        ELSE /\ ~(DatasetPresent /\ "csv" \in removed)
             /\ ~(args.release \in csvFiles /\ "dir" \in removed)

\* C3 (amended): at the end of a run that reached the cleanup step, and whose
\* removals raised nothing: with --keep-data neither the dataset directory nor
\* the extracted CSV has been removed; without it the extracted CSV is absent,
\* a dataset directory cloned by this run is absent, and a dataset found with
\* its data file at either candidate path is left as it was.
C3_CleanupBySource ==
    (Done /\ cleanupRan /\ ~cleanupFault) =>
        IF args.keep_data
        THEN /\ removed = {}
             /\ dirExists = (pre.dir \/ Succeeded("clone"))
             /\ pre.csv \subseteq csvFiles
        ELSE /\ args.release \notin csvFiles
             /\ Succeeded("clone") => ~dirExists
             /\ (pre.rda \/ pre.local) =>
                   /\ "dir" \notin removed
                   /\ dirExists = pre.dir
                   /\ rdaInDir = pre.rda
                   /\ localRda = pre.local

C3_Witness ==
    /\ Done /\ ~args.keep_data /\ pre.rda /\ Succeeded("extract")
    /\ removed = {"csv"} /\ dirExists /\ rdaInDir

\* C4: without --keep-data, after a run that reached the cleanup step and whose
\* removals did not fail, a dataset directory cloned by this run does not exist
\* and the extracted CSV of the release does not exist.
C4_ClonedDirAndCsvRemoved ==
    (Done /\ cleanupRan /\ ~args.keep_data /\ ~cleanupFault) =>
        /\ Succeeded("clone") => ~dirExists
        /\ args.release \notin csvFiles

C4_Witness ==
    /\ Done /\ ~args.keep_data /\ Succeeded("clone")
    /\ removed = {"dir", "csv"} /\ FailedStep = "convert"

\* C5 (as stated): in a run where lst_dds.rda is absent at both candidate paths
\* the clone subprocess is invoked exactly once, with the fixed URL and depth 1,
\* whatever the initial filesystem is.
C5_CloneExactlyOnce ==
    (Done /\ ~pre.rda /\ ~pre.local) =>
        /\ Count("clone") = 1
        /\ \A i \in DOMAIN trace : trace[i].step = "clone" => trace[i].cmd = CloneCmd

\* C6 (as stated): the exit code is 0 if and only if every requested step
\* succeeded, is 1 when the clone or the extraction fails, and is the tool's
\* return code when the conversion or the validation fails.
C6_ExitCodes ==
    Done =>
        /\ exit_code = 0 <=> AllSucceeded
        /\ (Failed("clone") \/ Failed("extract")) => exit_code = 1
        /\ Failed("convert") => exit_code = ReturnCode("convert")
        /\ Failed("validate") => exit_code = ReturnCode("validate")

\* C6 (amended): provided no removal of the cleanup step raises, the exit code
\* is 0 if and only if every requested step succeeded, is 1 when the clone or
\* the extraction fails, and is the tool's return code when the conversion or
\* the validation fails.
C6_ExitCodesUnlessCleanupRaises ==
    (Done /\ ~cleanupFault) =>
        /\ exit_code = 0 <=> AllSucceeded
        /\ (Failed("clone") \/ Failed("extract")) => exit_code = 1
        /\ Failed("convert") => exit_code = ReturnCode("convert")
        /\ Failed("validate") => exit_code = ReturnCode("validate")

C6_Witness ==
    Done /\ ~cleanupFault /\ Failed("convert") /\ exit_code = MaxRC /\ cleanupRan

\* C7 (as stated): a run succeeds with exit code 0 only, and no two runs that
\* fail at different steps (clone, extraction, conversion, validation) end
\* with the same exit code.
C7_DistinctExitCodes ==
    (Done /\ ~cleanupFault) =>
        /\ exit_code = 0 <=> FailedStep = "none"
        /\ ( /\ ~prev.fault
             /\ FailedStep \in ToolSteps
             /\ prev.step \in ToolSteps
             /\ prev.step # FailedStep ) => exit_code # prev.code

\* C7 (amended): a run ends with exit code 0 exactly when no step failed and no
\* removal raised; every failed run ends with a non-zero exit code, and the
\* codes are not distinct per step: a clone failure and an extraction failure
\* both end with 1.
C7_ZeroOnlyOnSuccess ==
    Done =>
        /\ exit_code = 0 <=> (FailedStep = "none" /\ ~cleanupFault)
        /\ exit_code >= 0
        /\ (FailedStep \in {"clone", "extract"}) => exit_code = 1

C7_Witness ==
    /\ Done /\ ~cleanupFault /\ ~prev.fault
    /\ prev.step = "clone" /\ FailedStep = "extract" /\ exit_code = prev.code

\* C8: in a run started with --no-validate the validation subcommand is never
\* invoked; with validation enabled it is invoked at most once.
C8_ValidationOnlyWhenEnabled ==
    /\ Count("validate") <= 1
    /\ ~args.validate => Count("validate") = 0

C8_Witness ==
    Done /\ ~args.validate /\ Succeeded("convert") /\ exit_code = 0

\* C9: the config file changes only in the config patch step, which turns a
\* mapping into the same mapping with source_version set to the release string
\* and every other key unchanged; a run that fails at clone or extraction ends
\* with the config file as it was when the run started.
C9_ConfigPatchOnly ==
    [][ /\ cfgFile' # cfgFile => pc = "patch"
        /\ (pc = "patch" /\ pc' = "convert") =>
              /\ cfgFile.kind = "map"
              /\ cfgFile'.kind = "map"
              /\ IsPatched(Load(cfgFile.entries), Load(cfgFile'.entries), args.release)
        /\ (pc = "patch" /\ pc' # "convert") => cfgFile' = cfgFile
        /\ (pc' = "exited" /\ (Failed("clone")' \/ Failed("extract")')) => cfgFile' = pre.cfg
      ]_vars

C9_Witness ==
    /\ pc = "convert" /\ args.release = "6.0"
    /\ pre.cfg.kind = "map"
    /\ "a" \in DOMAIN Load(pre.cfg.entries)
    /\ "source_version" \in DOMAIN Load(pre.cfg.entries)
    /\ Load(pre.cfg.entries)["source_version"] # [t |-> "str", v |-> "6.0"]
    /\ cfgFile # pre.cfg

\* C10: the steps are invoked in the order clone, extraction, config patch,
\* conversion, validation, each at most once, and only after every step invoked
\* before has succeeded; the conversion is invoked only after the extraction
\* exited zero and with source_version of the config equal to the release, and
\* the validation only after the conversion exited zero.
C10_LinearOrder ==
    /\ \A i, j \in DOMAIN trace : i < j => Rank(trace[i].step) < Rank(trace[j].step)
    /\ \A i \in DOMAIN trace : i < Len(trace) => trace[i].rc = 0
    /\ Invoked("patch") => Succeeded("extract")
    /\ Invoked("convert") =>
          /\ Succeeded("extract")
          /\ Succeeded("patch")
          /\ cfgFile.kind = "map"
          /\ "source_version" \in DOMAIN Load(cfgFile.entries)
          /\ Load(cfgFile.entries)["source_version"] = [t |-> "str", v |-> args.release]
    /\ Invoked("validate") => Succeeded("convert")

C10_Witness ==
    Done /\ Len(trace) = 5 /\ Failed("validate")

====
